---- MODULE Spec2Model ----
\* A model of src/src/merkle_tree/mod.rs: the Merkle tree over M31 leaf
\* vectors (MerkleTree::new), twin-proof extraction (MerkleTree::query),
\* twin-proof verification (MerkleTree::verify_twin) and the linearization
\* of a proof into script pushes (Pushable for MerkleTreeTwinProof).
\*
\* Rust vectors are 0-based, TLA+ sequences 1-based: At(s, i) reads s[i] of
\* the source. The hash primitive BWSSha256MerkleHasher::hash_node is an
\* external collaborator; it is modelled as an ideal (collision-free) hash,
\* the term built from its two arguments.
EXTENDS Integers, Sequences, FiniteSets, TLC

\* ------------------------------------------------------------------ bounds

\* Largest number of leaves handed to MerkleTree::new (0..MaxLeaves are tried).
MaxLeaves == 8

\* The M31 values that occur in leaves and in altered proofs.
M31Vals == {0, 1}

\* The leaf records (Vec<M31>) a tree is built from.
LeafVals == {<<0, 1>>, <<1, 0>>}

\* ------------------------------------------------------- sequences, usize

At(s, i) == s[i + 1]

\* All sequences over S of length exactly n / at most n.
SeqsOfLen(S, n) == [1..n -> S]

SeqsUpTo(S, n) == UNION {SeqsOfLen(S, k) : k \in 0..n}

\* pos & 1, pos | 1, pos ^ 1, pos >> 1 on usize (none of them can overflow).
and1(pos) == pos % 2

or1(pos) == IF pos % 2 = 0 THEN pos + 1 ELSE pos

xor1(pos) == IF pos % 2 = 0 THEN pos + 1 ELSE pos - 1

shr1(pos) == pos \div 2

\* usize::count_ones, by the binary expansion.
RECURSIVE count_ones(_)
count_ones(n) == IF n = 0 THEN 0 ELSE (n % 2) + count_ones(n \div 2)

is_power_of_two_always(n) == TRUE

\* usize::is_power_of_two: exactly one bit set (so 1 is a power of two, 0 is not).
is_power_of_two(n) == count_ones(n) = 1

\* `logn - 1` on usize. With overflow checks (debug profile) 0 - 1 panics;
\* without (release profile) it wraps to usize::MAX, kept symbolic here.
usize_sub_1(n, overflow_checks) ==
    IF n >= 1 THEN [kind |-> "val", v |-> n - 1]
    ELSE IF overflow_checks THEN [kind |-> "panic", v |-> 0]
    ELSE [kind |-> "usize_max", v |-> 0]

\* slice::chunks_exact(2): consecutive disjoint pairs, a trailing odd element dropped.
chunks_exact_2(s) == [k \in 1..(Len(s) \div 2) |-> <<s[2 * k - 1], s[2 * k]>>]

\* ------------------------------------------------------------------ hashes

\* Option<(BWSSha256Hash, BWSSha256Hash)>: None and Some((l, r)).
None == <<>>

Some(l, r) == <<l, r>>

\* BWSSha256MerkleHasher::hash_node(children_hashes, node_values): an ideal
\* hash, injective in the pair of its arguments.
hash_node(children_hashes, node_values) ==
    [children |-> children_hashes, data |-> node_values]

\* ----------------------------------------------------------- MerkleTree::new

leaf_pair_commit_swapped(v) ==
    LET commit_1 == hash_node(None, v[1])
        commit_2 == hash_node(None, v[2])
    IN  hash_node(Some(commit_2, commit_1), <<>>)

\* The closure of lines 28-33, applied to one chunk v of the leaf layer.
leaf_pair_commit(v) ==
    LET commit_1 == hash_node(None, v[1])
        commit_2 == hash_node(None, v[2])
    IN  hash_node(Some(commit_1, commit_2), <<>>)

\* The closure of line 40, applied to one chunk v of a hash layer.
node_pair_commit(v) == hash_node(Some(v[1], v[2]), <<>>)

first_layer(leaf_layer) ==
    LET ch == chunks_exact_2(leaf_layer)
    IN  [k \in 1..Len(ch) |-> leaf_pair_commit(ch[k])]

next_layer(cur) ==
    LET ch == chunks_exact_2(cur)
    IN  [k \in 1..Len(ch) |-> node_pair_commit(ch[k])]

build_continue_above_2(cur) == Len(cur) > 2

\* The loop condition of line 37.
build_continue(cur) == Len(cur) > 1

\* The while loop of lines 37-43.
RECURSIVE build_loop(_, _)
build_loop(cur, layers) ==
    IF build_continue(cur)
    THEN LET nxt == next_layer(cur) IN build_loop(nxt, Append(layers, nxt))
    ELSE [cur |-> cur, intermediate_layers |-> layers]

ZeroHash == hash_node(None, <<>>)

NoTree == [leaf_layer |-> <<>>, intermediate_layers |-> <<>>, root_hash |-> ZeroHash]

\* MerkleTree::new: the outcome ("ok" or "panic") and the tree.
new(leaf_layer) ==
    IF ~is_power_of_two(Len(leaf_layer))
    THEN [status |-> "panic", tree |-> NoTree]            \* assert!, line 23
    ELSE LET cur0 == first_layer(leaf_layer)
             r == build_loop(cur0, <<cur0>>)
         IN  IF Len(r.cur) = 0
             THEN [status |-> "panic", tree |-> NoTree]    \* cur[0], line 48
             ELSE [status |-> "ok",
                   tree |-> [leaf_layer |-> leaf_layer,
                             intermediate_layers |-> r.intermediate_layers,
                             root_hash |-> At(r.cur, 0)]]

\* --------------------------------------------------------- MerkleTree::query

\* MerkleTreeTwinProof::default().
DefaultProof == [left |-> <<>>, right |-> <<>>, siblings |-> <<>>]

QueryPanic == [status |-> "panic", proof |-> DefaultProof, reads |-> {}]

sibling_index_unshifted(pos) == xor1(2 * pos)

\* The index read at line 67, from pos after the shift of line 64.
sibling_index(pos) == xor1(pos)

\* The for loop of lines 63-68, from iteration i on; reads collects the
\* (layer, index) pairs read from intermediate_layers.
RECURSIVE query_loop(_, _, _, _, _, _)
query_loop(tree, i, n, pos, proof, reads) ==
    IF i >= n
    THEN [status |-> "ok", proof |-> proof, reads |-> reads]
    ELSE LET p == shr1(pos)
             idx == sibling_index(p)
         IN  IF i >= Len(tree.intermediate_layers)
                \/ idx >= Len(At(tree.intermediate_layers, i))
             THEN QueryPanic                               \* index out of bounds
             ELSE query_loop(tree, i + 1, n, p,
                     [proof EXCEPT !.siblings =
                         Append(@, At(At(tree.intermediate_layers, i), idx))],
                     reads \cup {<<i, idx>>})

\* MerkleTree::query, lines 53-71.
query(tree, pos, overflow_checks) ==
    LET logn == Len(tree.intermediate_layers)
        n == usize_sub_1(logn, overflow_checks)
    IN  IF and1(pos) # 0 THEN QueryPanic                   \* assert_eq!, line 55
        ELSE IF pos >= Len(tree.leaf_layer) \/ or1(pos) >= Len(tree.leaf_layer)
        THEN QueryPanic                                    \* lines 58-59
        \* logn - 1, line 63: an overflow panic, or a loop to usize::MAX
        \* that reads intermediate_layers[0] of a tree without layers
        ELSE IF n.kind # "val" THEN QueryPanic
        ELSE query_loop(tree, 0, n.v, pos,
                [left |-> At(tree.leaf_layer, pos),
                 right |-> At(tree.leaf_layer, or1(pos)),
                 siblings |-> <<>>], {})

\* --------------------------------------------------- MerkleTree::verify_twin

query_is_even_unchecked(q) == TRUE

\* assert_eq!(query & 1, 0), line 81.
query_is_even(q) == and1(q) = 0

twin_hash_left_only(proof) ==
    LET left_hash == hash_node(None, proof.left)
    IN  hash_node(Some(left_hash, left_hash), <<>>)

\* Lines 83-86: the hash of the twin leaves.
twin_hash(proof) ==
    LET left_hash == hash_node(None, proof.left)
        right_hash == hash_node(None, proof.right)
    IN  hash_node(Some(left_hash, right_hash), <<>>)

verify_step_ignoring_parity(q, leaf_hash, sibling) ==
    hash_node(Some(leaf_hash, sibling), <<>>)

\* Lines 90-96: one step of the recomputation, by the parity of q.
verify_step(q, leaf_hash, sibling) ==
    LET f == IF and1(q) = 0 THEN <<leaf_hash, sibling>> ELSE <<sibling, leaf_hash>>
    IN  hash_node(Some(f[1], f[2]), <<>>)

verify_next_query_stuck(q) == q

\* Line 97: query >>= 1.
verify_next_query(q) == shr1(q)

\* The for loop of lines 89-98, from iteration i on.
RECURSIVE verify_loop(_, _, _, _, _)
verify_loop(i, n, proof, q, leaf_hash) ==
    IF i >= n THEN leaf_hash
    ELSE verify_loop(i + 1, n, proof, verify_next_query(q),
                     verify_step(q, leaf_hash, At(proof.siblings, i)))

verify_twin_range_checked(root_hash, logn, proof, q, overflow_checks) ==
    LET n == usize_sub_1(logn, overflow_checks)
    IN  IF n.kind = "panic" THEN "panic"
        ELSE IF n.kind = "usize_max" \/ Len(proof.siblings) # n.v THEN "panic"
        ELSE IF ~query_is_even(q) THEN "panic"
        ELSE IF q >= 2 ^ logn THEN "false"
        ELSE IF verify_loop(0, n.v, proof, shr1(q), twin_hash(proof)) = root_hash
             THEN "true" ELSE "false"

\* MerkleTree::verify_twin, lines 74-101: "true", "false" or "panic".
verify_twin(root_hash, logn, proof, q, overflow_checks) ==
    LET n == usize_sub_1(logn, overflow_checks)
    IN  IF n.kind = "panic" THEN "panic"                   \* logn - 1, line 80
        \* a Vec never holds usize::MAX elements: the assert_eq! fails
        ELSE IF n.kind = "usize_max" \/ Len(proof.siblings) # n.v THEN "panic"
        ELSE IF ~query_is_even(q) THEN "panic"             \* line 81
        ELSE IF verify_loop(0, n.v, proof, shr1(q), twin_hash(proof)) = root_hash
             THEN "true" ELSE "false"

\* ------------------------------------------- Pushable for MerkleTreeTwinProof

\* One push unit of the script builder: an M31 element or a hash.
push_m31(builder, v) == Append(builder, [kind |-> "m31", val |-> <<v>>, hash |-> ZeroHash])

push_hash(builder, h) == Append(builder, [kind |-> "hash", val |-> <<>>, hash |-> h])

RECURSIVE push_all_m31(_, _, _)
push_all_m31(builder, s, i) ==
    IF i >= Len(s) THEN builder ELSE push_all_m31(push_m31(builder, At(s, i)), s, i + 1)

RECURSIVE push_all_hash(_, _, _)
push_all_hash(builder, s, i) ==
    IF i >= Len(s) THEN builder ELSE push_all_hash(push_hash(builder, At(s, i)), s, i + 1)

push_ref_right_first(proof, builder) ==
    push_all_hash(push_all_m31(push_all_m31(builder, proof.right, 0), proof.left, 0),
                  proof.siblings, 0)

\* impl Pushable for &MerkleTreeTwinProof, lines 121-134.
push_ref(proof, builder) ==
    push_all_hash(push_all_m31(push_all_m31(builder, proof.left, 0), proof.right, 0),
                  proof.siblings, 0)

\* impl Pushable for MerkleTreeTwinProof, lines 115-119.
push_owned(proof, builder) == push_ref(proof, builder)

\* ------------------------------------------------------------ the program

\* tree, new_status, leaves_arg: the tree MerkleTree::new returned, its outcome
\*   ("none" before the call, "ok", "panic") and the leaf vector it was given.
\* pos_arg, query_status, proof, reads: the latest MerkleTree::query call on
\*   the tree: its position, outcome, returned proof and the
\*   intermediate_layers cells it read.
\* vargs, verify_status: the latest MerkleTree::verify_twin call made with the
\*   queried proof (or an altered copy of it): its arguments and its outcome
\*   ("none", "true", "false", "panic").
\* builder_in, builder, push_status: the latest bitcoin_script_push of the
\*   queried proof: the builder it was given, the builder it returned and the
\*   impl used ("none", "owned", "ref").
VARIABLES tree, new_status, leaves_arg,
          pos_arg, query_status, proof, reads,
          vargs, verify_status,
          builder_in, builder, push_status

vars == <<tree, new_status, leaves_arg, pos_arg, query_status, proof, reads,
          vargs, verify_status, builder_in, builder, push_status>>

NoArgs == [root_hash |-> ZeroHash, logn |-> 0, proof |-> DefaultProof, query |-> 0]

\* Leaf vectors handed to MerkleTree::new: every length 0..MaxLeaves.
LeafLayerInputs == SeqsUpTo(LeafVals, MaxLeaves)

\* Positions handed to query and verify_twin: in range, out of range, odd.
QueryInputs == 0..(2 * MaxLeaves - 1)

\* Builders a proof is pushed onto: empty, or already holding a unit.
BuilderInputs == {<<>>, push_m31(<<>>, 1)}

\* Hashes put in place of a sibling entry.
HashAlts(t) == {ZeroHash, t.root_hash, At(At(t.intermediate_layers, 0), 0)}

\* p with exactly one element of left / of right / of siblings replaced by a
\* different value.
LeftAltered(p) ==
    {[p EXCEPT !.left[i] = v] : <<i, v>> \in
        {x \in (1..Len(p.left)) \X M31Vals : p.left[x[1]] # x[2]}}

RightAltered(p) ==
    {[p EXCEPT !.right[i] = v] : <<i, v>> \in
        {x \in (1..Len(p.right)) \X M31Vals : p.right[x[1]] # x[2]}}

SiblingAltered(p, t) ==
    {[p EXCEPT !.siblings[i] = h] : <<i, h>> \in
        {x \in (1..Len(p.siblings)) \X HashAlts(t) : p.siblings[x[1]] # x[2]}}

\* p with its last sibling dropped, or with one more sibling.
Resized(p) ==
    {[p EXCEPT !.siblings = Append(@, ZeroHash)]}
    \cup (IF Len(p.siblings) = 0 THEN {}
          ELSE {[p EXCEPT !.siblings = SubSeq(@, 1, Len(@) - 1)]})

\* The calls of verify_twin that are tried after a query: the returned proof
\* against the root under every declared depth and position, and against
\* another hash under the tree's depth; an altered proof under the tree's
\* depth and every position; a resized proof under every declared depth.
VerifyInputs ==
    LET len == Len(tree.intermediate_layers)
    IN  IF query_status # "ok" \/ verify_status # "none" \/ push_status # "none"
        THEN {} ELSE
        [root_hash : {tree.root_hash},
         logn : 0..(len + 1), proof : {proof}, query : QueryInputs]
        \cup [root_hash : {At(At(tree.intermediate_layers, 0), 0)},
              logn : {len}, proof : {proof}, query : QueryInputs]
        \cup [root_hash : {tree.root_hash}, logn : {len},
              proof : LeftAltered(proof) \cup RightAltered(proof)
                      \cup SiblingAltered(proof, tree),
              query : QueryInputs]
        \cup [root_hash : {tree.root_hash}, logn : 0..(len + 1),
              proof : Resized(proof), query : {pos_arg}]

Init ==
    /\ tree = NoTree
    /\ new_status = "none"
    /\ leaves_arg = <<>>
    /\ pos_arg = 0
    /\ query_status = "none"
    /\ proof = DefaultProof
    /\ reads = {}
    /\ vargs = NoArgs
    /\ verify_status = "none"
    /\ builder_in = <<>>
    /\ builder = <<>>
    /\ push_status = "none"

\* let merkle_tree = MerkleTree::new(leaf_layer)
New(leaf_layer) ==
    /\ new_status = "none"
    /\ LET r == new(leaf_layer)
       IN  /\ new_status' = r.status
           /\ tree' = r.tree
    /\ leaves_arg' = leaf_layer
    /\ UNCHANGED <<pos_arg, query_status, proof, reads, vargs, verify_status,
                   builder_in, builder, push_status>>

\* let proof = merkle_tree.query(pos)
Query(pos, overflow_checks) ==
    /\ new_status = "ok"
    /\ query_status = "none"
    /\ LET r == query(tree, pos, overflow_checks)
       IN  /\ query_status' = r.status
           /\ proof' = r.proof
           /\ reads' = r.reads
    /\ pos_arg' = pos
    /\ UNCHANGED <<tree, new_status, leaves_arg, vargs, verify_status,
                   builder_in, builder, push_status>>

\* The proof has not been consumed yet.
Fresh == query_status = "ok" /\ verify_status = "none" /\ push_status = "none"

\* MerkleTree::verify_twin(&a.root_hash, a.logn, &a.proof, a.query)
Verify(a, overflow_checks) ==
    /\ Fresh
    /\ vargs' = a
    /\ verify_status' = verify_twin(a.root_hash, a.logn, a.proof, a.query, overflow_checks)
    /\ UNCHANGED <<tree, new_status, leaves_arg, pos_arg, query_status, proof, reads,
                   builder_in, builder, push_status>>

\* proof.bitcoin_script_push(b)
PushOwned(b) ==
    /\ Fresh
    /\ builder_in' = b
    /\ builder' = push_owned(proof, b)
    /\ push_status' = "owned"
    /\ UNCHANGED <<tree, new_status, leaves_arg, pos_arg, query_status, proof, reads,
                   vargs, verify_status>>

\* (&proof).bitcoin_script_push(b)
PushRef(b) ==
    /\ Fresh
    /\ builder_in' = b
    /\ builder' = push_ref(proof, b)
    /\ push_status' = "ref"
    /\ UNCHANGED <<tree, new_status, leaves_arg, pos_arg, query_status, proof, reads,
                   vargs, verify_status>>

\* The next iteration of a caller's loop over one tree (the loop of
\* test_merkle_tree, lines 155-168): the proof and what was done with it go
\* out of scope, the tree stays.
NextRound ==
    /\ query_status # "none"
    /\ pos_arg' = 0
    /\ query_status' = "none"
    /\ proof' = DefaultProof
    /\ reads' = {}
    /\ vargs' = NoArgs
    /\ verify_status' = "none"
    /\ builder_in' = <<>>
    /\ builder' = <<>>
    /\ push_status' = "none"
    /\ UNCHANGED <<tree, new_status, leaves_arg>>

Next ==
    \/ \E leaf_layer \in LeafLayerInputs : New(leaf_layer)
    \/ \E pos \in QueryInputs, oc \in BOOLEAN : Query(pos, oc)
    \/ \E a \in VerifyInputs, oc \in BOOLEAN : Verify(a, oc)
    \/ \E b \in BuilderInputs : PushOwned(b)
    \/ \E b \in BuilderInputs : PushRef(b)
    \/ NextRound

Spec == Init /\ [][Next]_vars

\* ------------------------------------------------------------- properties

\* The vocabulary of the claims: N, the layers, the two hash modes, powers of two.
N == Len(tree.leaf_layer)

Layers == tree.intermediate_layers

leafHash(leaf) == hash_node(None, leaf)

nodeHash(l, r) == hash_node(Some(l, r), <<>>)

IsPow2(n) == \E k \in 1..n : 2 ^ k = n

Log2(n) == CHOOSE k \in 1..n : 2 ^ k = n

Even(q) == q % 2 = 0

Built == new_status = "ok"

Queried == Built /\ query_status = "ok"

Verified == Queried /\ verify_status # "none"

\* The latest verify_twin call was Verify(tree.root, layers.len(), pr, q).
VerifiedWith(pr, q) ==
    /\ Verified
    /\ vargs.root_hash = tree.root_hash
    /\ vargs.logn = Len(Layers)
    /\ vargs.proof = pr
    /\ vargs.query = q

\* The number of positions at which two sequences of one length differ.
Diff(s, t) == Cardinality({i \in 1..Len(s) : s[i] # t[i]})

\* p2 is p with exactly one field element of left, or one of right, or one
\* entry of siblings replaced by a different value.
SingleReplacement(p, p2) ==
    /\ Len(p2.left) = Len(p.left)
    /\ Len(p2.right) = Len(p.right)
    /\ Len(p2.siblings) = Len(p.siblings)
    /\ Diff(p.left, p2.left) + Diff(p.right, p2.right)
         + Diff(p.siblings, p2.siblings) = 1

\* C1: for every leaf vector of length N = 2^k, k >= 1, and every even q in
\* [0, N), new returns a tree, query returns a proof and
\* verify_twin(root_hash, intermediate_layers.len(), query(q), q) is true.
C1_RoundTrip ==
    /\ (new_status # "none" /\ IsPow2(Len(leaves_arg))) => Built
    /\ (Built /\ query_status # "none" /\ Even(pos_arg) /\ pos_arg < N)
         => query_status = "ok"
    /\ VerifiedWith(proof, pos_arg) => verify_status = "true"

C1_Witness ==
    /\ VerifiedWith(proof, pos_arg)
    /\ N = 8
    /\ pos_arg = 6
    /\ verify_status = "true"

\* C2: with a collision-free hash, a proof returned by query with exactly one
\* field element of left, or of right, or one entry of siblings replaced by a
\* different value is rejected: verify_twin under the tree's root, its depth
\* and the queried position returns false.
C2_TamperRejected ==
    (Verified /\ vargs.root_hash = tree.root_hash /\ vargs.logn = Len(Layers)
       /\ vargs.query = pos_arg /\ SingleReplacement(proof, vargs.proof))
      => verify_status = "false"

C2_Witness ==
    /\ Verified
    /\ vargs.root_hash = tree.root_hash
    /\ vargs.logn = Len(Layers)
    /\ vargs.query = pos_arg
    /\ SingleReplacement(proof, vargs.proof)
    /\ N = 8
    /\ vargs.proof.siblings # proof.siblings
    /\ verify_status = "false"

\* C3: a tree built over N = 2^k leaves, k >= 1, has exactly log2(N)
\* intermediate layers, the first of N/2 hashes, each next one half as long
\* as the one before, the last of length 1, and root_hash is its only entry.
C3_LayerShape ==
    (new_status # "none" /\ IsPow2(Len(leaves_arg))) =>
        /\ Built
        /\ N = Len(leaves_arg)
        /\ Len(Layers) = Log2(N)
        /\ 2 * Len(At(Layers, 0)) = N
        /\ \A i \in 1..(Len(Layers) - 1) :
               2 * Len(At(Layers, i)) = Len(At(Layers, i - 1))
        /\ Len(At(Layers, Len(Layers) - 1)) = 1
        /\ tree.root_hash = At(At(Layers, Len(Layers) - 1), 0)

C3_Witness == Built /\ N = 8 /\ Len(Layers) = 3

\* What C4 states about the proof itself and about verification at index 0.
C4_Binding ==
    /\ (Queried /\ N = 4 /\ pos_arg = 0) =>
           /\ proof.left = At(tree.leaf_layer, 0)
           /\ proof.right = At(tree.leaf_layer, 1)
           /\ proof.siblings = <<At(At(Layers, 0), 1)>>
    /\ (N = 4 /\ pos_arg = 0 /\ VerifiedWith(proof, 0)) => verify_status = "true"

\* C4 as stated: over 4 leaves, query(0) is (L0, L1, [layers[0][1]]),
\* verify_twin(root, 2, proof, 0) is true and verify_twin(root, 2, proof, 2)
\* is false.
C4_Original ==
    /\ C4_Binding
    /\ (N = 4 /\ pos_arg = 0 /\ VerifiedWith(proof, 2)) => verify_status = "false"

\* C4, amended: as C4, but with a collision-free hash
\* verify_twin(root, 2, proof, 2) is false exactly when the pair (L0, L1)
\* differs from the pair (L2, L3), and true when the two pairs are equal.
C4_IndexBinding ==
    /\ C4_Binding
    /\ (N = 4 /\ pos_arg = 0 /\ VerifiedWith(proof, 2)) =>
           (verify_status =
               IF <<At(tree.leaf_layer, 0), At(tree.leaf_layer, 1)>>
                    = <<At(tree.leaf_layer, 2), At(tree.leaf_layer, 3)>>
               THEN "true" ELSE "false")

C4_Witness ==
    /\ N = 4
    /\ pos_arg = 0
    /\ VerifiedWith(proof, 2)
    /\ proof.siblings = <<At(At(Layers, 0), 1)>>
    /\ verify_status = "false"

\* C5: new returns a tree exactly when the number of leaves is a power of
\* two that is at least 2; for every other count (0, 1, 3, 5, 6, ...) it
\* panics and no tree exists.
C5_NewPrecondition ==
    new_status # "none" =>
        /\ new_status = "ok" <=> IsPow2(Len(leaves_arg))
        /\ new_status = "panic" <=> ~IsPow2(Len(leaves_arg))
        /\ new_status = "panic" => tree = NoTree /\ query_status = "none"

C5_Witness == new_status = "panic" /\ Len(leaves_arg) = 1

\* C6: verify_twin with logn # proof.siblings.len() + 1 (logn = 0 included)
\* or with an odd query panics, and query with an odd pos panics: neither
\* yields a value, so a returned false is a hash mismatch under a respected
\* contract.
C6_ContractViolations ==
    /\ (verify_status # "none"
          /\ (vargs.logn # Len(vargs.proof.siblings) + 1 \/ ~Even(vargs.query)))
         => verify_status = "panic"
    /\ (query_status # "none" /\ ~Even(pos_arg))
         => (query_status = "panic" /\ proof = DefaultProof)
    /\ verify_status = "false" =>
           /\ vargs.logn = Len(vargs.proof.siblings) + 1
           /\ Even(vargs.query)
           /\ verify_loop(0, vargs.logn - 1, vargs.proof, shr1(vargs.query),
                          twin_hash(vargs.proof)) # vargs.root_hash

C6_Witness ==
    /\ verify_status = "panic"
    /\ vargs.logn = 0
    /\ vargs.proof.siblings = <<>>
    /\ Even(vargs.query)

\* C7: pushing a proof, by value or by reference, appends to the builder the
\* elements of left in order, then those of right in order, then the hashes
\* of siblings in order, one push unit each and nothing else.
C7_PushOrder ==
    push_status # "none" =>
        LET nb == Len(builder_in)
            nl == Len(proof.left)
            nr == Len(proof.right)
            ns == Len(proof.siblings)
        IN  /\ Len(builder) = nb + nl + nr + ns
            /\ \A i \in 1..nb : builder[i] = builder_in[i]
            /\ \A i \in 1..nl :
                   /\ builder[nb + i].kind = "m31"
                   /\ builder[nb + i].val = <<proof.left[i]>>
            /\ \A i \in 1..nr :
                   /\ builder[nb + nl + i].kind = "m31"
                   /\ builder[nb + nl + i].val = <<proof.right[i]>>
            /\ \A i \in 1..ns :
                   /\ builder[nb + nl + nr + i].kind = "hash"
                   /\ builder[nb + nl + nr + i].hash = proof.siblings[i]

C7_Witness ==
    /\ push_status = "owned"
    /\ builder_in # <<>>
    /\ proof.left # proof.right
    /\ Len(proof.siblings) = 2
    /\ Len(builder) = Len(builder_in) + 6

\* C8: layers[0][k] is the node-mode hash of the leaf-mode hashes of
\* leaves[2k] and leaves[2k+1]; while layers[i] is longer than 1 there is a
\* layers[i+1], and layers[i+1][k] is the node-mode hash of layers[i][2k]
\* and layers[i][2k+1], the even-indexed element on the left.
C8_HashStructure ==
    Built =>
        /\ \A k \in 0..((N \div 2) - 1) :
               At(At(Layers, 0), k) =
                   nodeHash(leafHash(At(tree.leaf_layer, 2 * k)),
                            leafHash(At(tree.leaf_layer, 2 * k + 1)))
        /\ \A i \in 0..(Len(Layers) - 1) :
               Len(At(Layers, i)) > 1 =>
                   /\ i + 1 < Len(Layers)
                   /\ \A k \in 0..(Len(At(Layers, i + 1)) - 1) :
                          At(At(Layers, i + 1), k) =
                              nodeHash(At(At(Layers, i), 2 * k),
                                       At(At(Layers, i), 2 * k + 1))

C8_Witness ==
    /\ Built
    /\ N = 8
    /\ At(tree.leaf_layer, 0) # At(tree.leaf_layer, 1)
    /\ At(At(Layers, 1), 0) # At(At(Layers, 1), 1)

\* What C9 states about one query call.
C9_Path ==
    (Built /\ query_status # "none" /\ Even(pos_arg) /\ pos_arg < N) =>
        /\ query_status = "ok"
        /\ proof.left = At(tree.leaf_layer, pos_arg)
        /\ proof.right = At(tree.leaf_layer, pos_arg + 1)
        /\ Len(proof.siblings) = Len(Layers) - 1
        /\ \A i \in 0..(Len(Layers) - 2) :
               At(proof.siblings, i) =
                   At(At(Layers, i), xor1(pos_arg \div (2 ^ (i + 1))))
        /\ reads = {<<i, xor1(pos_arg \div (2 ^ (i + 1)))>> : i \in 0..(Len(Layers) - 2)}
        /\ \A r \in reads :
               /\ r[1] < Len(Layers) - 1
               /\ r[2] < Len(At(Layers, r[1]))

\* C9: for every even q in [0, N), query(q) returns left = leaves[q],
\* right = leaves[q+1] and layers.len() - 1 siblings, siblings[i] =
\* layers[i][(q >> (i+1)) XOR 1]; it reads only cells inside their layers,
\* never the root layer, and leaves the tree as it was.
C9_QueryPath ==
    /\ []C9_Path
    /\ [][(query_status = "none" /\ query_status' # "none") => tree' = tree]_vars

C9_Witness ==
    /\ Queried
    /\ N = 8
    /\ pos_arg = 6
    /\ reads = {<<0, 2>>, <<1, 0>>}

\* C10: verify_twin reads only bits 1 .. logn-1 of query: under a respected
\* contract its result at query equals its result at query mod 2^logn, and a
\* proof returned by query(q) is accepted at every q + m * N as well.
C10_IndexModulo ==
    /\ (verify_status # "none" /\ vargs.logn >= 1
          /\ Len(vargs.proof.siblings) = vargs.logn - 1 /\ Even(vargs.query))
         => \A oc \in BOOLEAN :
                verify_status =
                    verify_twin(vargs.root_hash, vargs.logn, vargs.proof,
                                vargs.query % (2 ^ vargs.logn), oc)
    /\ (Verified /\ vargs.root_hash = tree.root_hash /\ vargs.logn = Len(Layers)
          /\ vargs.proof = proof /\ vargs.query % N = pos_arg)
         => verify_status = "true"

C10_Witness ==
    /\ Verified
    /\ vargs.root_hash = tree.root_hash
    /\ vargs.logn = Len(Layers)
    /\ vargs.proof = proof
    /\ N = 4
    /\ pos_arg = 2
    /\ vargs.query = 6
    /\ verify_status = "true"

====
